---- MODULE Spec2Model ----
(***************************************************************************)
(* The in-process message bus (backend/mcp/message_bus.py), the message    *)
(* envelope (backend/mcp/message_types.py), the worker agents and the      *)
(* coordinator (backend/agents/*.py), as a state machine.                   *)
(*                                                                         *)
(* Scheduling is asyncio's: one thread, a coroutine runs until it awaits   *)
(* something that is not ready.  The two points where a bus call suspends  *)
(* are `await callback(message)` (message_bus.py:36) and                   *)
(* `await asyncio.wait_for(future, timeout)` (message_bus.py:55).  One     *)
(* action is the code that runs between two such points, the caller's      *)
(* continuation included.                                                  *)
(*                                                                         *)
(* subscribe is synchronous and is called from the agents' constructors    *)
(* (base_agent.py:19-23); it does not run while a publish is suspended in  *)
(* a callback.                                                             *)
(***************************************************************************)
EXTENDS Integers, Sequences, FiniteSets, TLC

VARIABLES
    subscribers,          \* MessageBus.subscribers: insertion-ordered dict key -> callbacks
    message_history,      \* MessageBus.message_history
    pending_responses,    \* MessageBus.pending_responses: message_id -> future (its call)
    registrations,        \* the subscribe calls made so far, in call order
    tasks,                \* the publish / request_response calls made so far
    next_id,              \* the next value uuid.uuid4() yields
    agents,               \* the worker agents constructed so far
    workflows,            \* the process_documents / answer_question calls made so far
    conversation_history, \* CoordinatorAgent.conversation_history
    vector_store,         \* the chunks RetrievalAgent.vector_store holds
    prompts               \* the prompts passed to model.generate_content, in call order

vars == <<subscribers, message_history, pending_responses, registrations, tasks,
          next_id, agents, workflows, conversation_history, vector_store, prompts>>

---------------------------------------------------------------------------
(* Bounds of the model *)

MaxSubscribe == 3
MaxCalls == 2
MaxTicks == 3
MaxWorkflows == 2

(* Program constants *)

DefaultTimeout == 30
IngestionTimeout == 60
RetrievalTimeout == 30
LLMTimeout == 60
MaxTurns == 10

\* The number of turns create_prompt reads: llm_response_agent.py:34
GroundingTurns == 3

\* The number of messages get_message_history() returns: message_bus.py:67
HistoryWindow == 50

\* One tick of the clock: the shortest timeout the program uses.
TimeUnit == RetrievalTimeout

Ticks(seconds) == seconds \div TimeUnit

---------------------------------------------------------------------------
(* Sequences *)

Range(s) == {s[i] : i \in 1..Len(s)}

Last(s) == s[Len(s)]

IsPrefix(s, t) == Len(s) <= Len(t) /\ SubSeq(t, 1, Len(s)) = s

RECURSIVE SelectWhere(_, _)
\* The entries of s whose index is in keep, in order.
SelectWhere(s, keep) ==
    IF s = <<>> THEN <<>>
    ELSE LET rest == SelectWhere(SubSeq(s, 1, Len(s) - 1), keep)
         IN  IF Len(s) \in keep THEN Append(rest, Last(s)) ELSE rest

---------------------------------------------------------------------------
(* Messages: message_types.py *)

MessageType == {"INGESTION_REQUEST", "INGESTION_RESPONSE", "RETRIEVAL_REQUEST",
                "RETRIEVAL_RESPONSE", "LLM_REQUEST", "LLM_RESPONSE", "ERROR", "STATUS"}

\* A faulty variant of Uuid4: the id is computed once and used again.
Uuid4_Once(drawn) == drawn

\* str(uuid.uuid4()) of MCPMessage.__init__ (message_types.py:35-36) and of the
\* coordinator's trace ids: the value drawn after drawn, never drawn before.
Uuid4(drawn) == drawn + 1

\* MCPMessage(**data) with the message_id the constructor settled on.
MCPMessage(message_id, trace_id, sender, receiver, type, payload) ==
    [message_id |-> message_id, trace_id |-> trace_id, sender |-> sender,
     receiver |-> receiver, type |-> type, payload |-> payload]

\* Python's None where a message is expected.
None == [message_id |-> 0, trace_id |-> 0, sender |-> "", receiver |-> "",
         type |-> "None", payload |-> [none |-> TRUE]]

---------------------------------------------------------------------------
(* The subscriber table: message_bus.py:15-21 and 29-33.  A key is the      *)
(* string f"{agent_name}:{','.join(values)}", kept as its sequence of       *)
(* tokens (a name, a type value, ":" or ",").                               *)

RECURSIVE JoinComma(_)
JoinComma(values) ==
    IF values = <<>> THEN <<>>
    ELSE IF Len(values) = 1 THEN <<values[1]>>
    ELSE <<values[1], ",">> \o JoinComma(Tail(values))

SubscriberKey(agent_name, message_types) ==
    <<agent_name, ":">> \o JoinComma(message_types)

\* key.split(sep, 1)
SplitOnce(tokens, sep) ==
    LET at == {i \in 1..Len(tokens) : tokens[i] = sep}
    IN  IF at = {} THEN <<tokens>>
        ELSE LET i == CHOOSE j \in at : \A k \in at : j <= k
             IN  <<SubSeq(tokens, 1, i - 1), SubSeq(tokens, i + 1, Len(tokens))>>

RECURSIVE SplitAll(_, _)
\* s.split(sep): "" splits to [""].
SplitAll(tokens, sep) ==
    LET parts == SplitOnce(tokens, sep)
    IN  IF Len(parts) = 1 THEN parts
        ELSE <<parts[1]>> \o SplitAll(parts[2], sep)

\* A faulty variant of KeyMatches: the receiver is not compared.
KeyMatches_AnyReceiver(key, message) ==
    LET parts == SplitOnce(key, ":")
    IN  <<message.type>> \in Range(SplitAll(parts[2], ","))

\* A faulty variant of KeyMatches: the message type is not compared.
KeyMatches_AnyType(key, message) ==
    LET parts == SplitOnce(key, ":")
    IN  parts[1] = <<message.receiver>>

\* message_bus.py:30-32
KeyMatches(key, message) ==
    LET parts == SplitOnce(key, ":")
        agent_name == parts[1]
        msg_types == parts[2]
    IN  /\ agent_name = <<message.receiver>>
        /\ <<message.type>> \in Range(SplitAll(msg_types, ","))

KeyIndex(subs, key) == {i \in 1..Len(subs) : subs[i].key = key}

\* message_bus.py:17-20
SubscribeTo(subs, agent_name, message_types, callback) ==
    LET key == SubscriberKey(agent_name, message_types)
    IN  IF KeyIndex(subs, key) = {}
        THEN Append(subs, [key |-> key, callbacks |-> <<callback>>])
        ELSE LET i == CHOOSE j \in KeyIndex(subs, key) : TRUE
             IN  [subs EXCEPT ![i].callbacks = Append(@, callback)]

RECURSIVE DeliveryOrder(_, _)
\* The callbacks the two loops of publish visit for message, in order:
\* the dict's keys in insertion order, each key's callbacks in list order.
DeliveryOrder(subs, message) ==
    IF subs = <<>> THEN <<>>
    ELSE DeliveryOrder(SubSeq(subs, 1, Len(subs) - 1), message)
         \o (IF KeyMatches(Last(subs).key, message) THEN Last(subs).callbacks ELSE <<>>)

---------------------------------------------------------------------------
(* The state as one value, so that the code between two suspension points   *)
(* composes: a call, the callbacks' returns and the caller's continuation.  *)

State ==
    [subscribers |-> subscribers, message_history |-> message_history,
     pending_responses |-> pending_responses, registrations |-> registrations,
     tasks |-> tasks, next_id |-> next_id, agents |-> agents,
     workflows |-> workflows, conversation_history |-> conversation_history,
     vector_store |-> vector_store, prompts |-> prompts]

Becomes(s) ==
    /\ subscribers' = s.subscribers
    /\ message_history' = s.message_history
    /\ pending_responses' = s.pending_responses
    /\ registrations' = s.registrations
    /\ tasks' = s.tasks
    /\ next_id' = s.next_id
    /\ agents' = s.agents
    /\ workflows' = s.workflows
    /\ conversation_history' = s.conversation_history
    /\ vector_store' = s.vector_store
    /\ prompts' = s.prompts

\* dict with d[k] = v
DictSet(d, k, v) == [x \in DOMAIN d \cup {k} |-> IF x = k THEN v ELSE d[x]]

\* dict after `del d[k]`
DictDel(d, k) == [x \in DOMAIN d \ {k} |-> d[x]]

EmptyDict == [x \in {} |-> 0]

---------------------------------------------------------------------------
(* A bus call: publish (message_bus.py:23-42) or request_response          *)
(* (message_bus.py:44-61).                                                  *)
(*   pc       "callback": suspended in `await callback(message)`;           *)
(*            "wait": suspended in `await asyncio.wait_for(future, ...)`;   *)
(*            "done": the call has returned or raised                       *)
(*   pos      the place of the running callback in the delivery order       *)
(*   invoked  the callbacks invoked so far and how each ended               *)
(*   response what the call's publish returned ("unset" until it does)      *)
(*   outcome  "returned" (result is the value) or "timeout" or "raised"     *)
(*   caller   0: a client of the bus; w > 0: workflows[w]                   *)
(*   timeout  in ticks of TimeUnit seconds                                  *)
(*   elapsed  the ticks since the call began, counted up to timeout + 1     *)
(*            (kept for the coordinator's calls)                            *)
(*   waited   the ticks its wait_for has waited                             *)

NewCall(op, message, timeout, caller) ==
    [op |-> op, message |-> message, timeout |-> timeout, caller |-> caller,
     pc |-> "callback", pos |-> 1, invoked |-> <<>>, published |-> FALSE,
     response |-> None, outcome |-> "pending", result |-> None,
     elapsed |-> 0, waited |-> 0]

\* A faulty variant of FinallyRemove: the finally clause is missing.
FinallyRemove_Leaks(pending, message_id) == pending

\* A faulty variant of FinallyRemove: every pending entry is dropped.
FinallyRemove_All(pending, message_id) == EmptyDict

\* message_bus.py:59-61
FinallyRemove(pending, message_id) ==
    IF message_id \in DOMAIN pending THEN DictDel(pending, message_id) ELSE pending

\* A faulty variant of AfterCallback: a reply does not end the delivery.
AfterCallback_NoEarlyReturn(out) == "continue"

\* A faulty variant of AfterCallback: the try/except around the callback is missing.
AfterCallback_RaiseAborts(out) ==
    IF out = "reply" THEN "return" ELSE IF out = "raise" THEN "raise" ELSE "continue"

\* message_bus.py:35-40: what publish does once a callback has ended with
\* out: "reply" (a Message), "none" (None) or "raise" (an Exception).
AfterCallback(out) ==
    IF out = "reply" THEN "return" ELSE "continue"

\* A faulty variant of TimerExpired: wait_for is given no timeout.
TimerExpired_Never(call) == FALSE

\* asyncio.wait_for(future, timeout=timeout), message_bus.py:55
TimerExpired(call) == call.waited >= call.timeout

---------------------------------------------------------------------------
(* The callbacks.  "h1", "h2", ... are the callbacks clients subscribe;     *)
(* an agent's name stands for its bound method process_message.  What a     *)
(* callback does when invoked is one of its outcomes:                       *)
(*   out      "reply": returns MCPMessage(type, payload, ...);              *)
(*            "none": returns None; "raise": raises an Exception            *)
(*   store    the vector store it leaves                                    *)

WorkerAgents == {"IngestionAgent", "RetrievalAgent", "LLMResponseAgent"}

AgentNames == WorkerAgents \cup {"CoordinatorAgent"}

\* The value of a str-typed entry that is None.
NoneStr == "<None>"

\* dict.get(field, default)
Get(payload, field, default) ==
    IF field \in DOMAIN payload THEN payload[field] ELSE default

Outcome(out, type, payload, store) ==
    [out |-> out, type |-> type, payload |-> payload, store |-> store]

ReturnsNone(store) == Outcome("none", "None", None.payload, store)

Raises(store) == Outcome("raise", "None", None.payload, store)

\* The files of the upload directory: whether os.path.exists holds and
\* whether the parser of the declared type reads it.
ExistingPaths == {"a.pdf", "b.txt", "c.xyz"}

ParsablePaths == {"a.pdf", "b.txt"}

\* ingestion_agent.py:15-23
ParserTypes == {"pdf", "docx", "pptx", "csv", "txt", "md", "markdown"}

\* parser.parse(file_path): parsers/*.py
ParsedDocument(file_path, file_type) ==
    [content |-> file_path,
     metadata |-> [file_type |-> file_type, file_path |-> file_path]]

RECURSIVE ProcessedDocuments(_, _)
\* ingestion_agent.py:40-56, over zip(file_paths, file_types)
ProcessedDocuments(file_paths, file_types) ==
    IF file_paths = <<>> \/ file_types = <<>> THEN <<>>
    ELSE LET file_path == Head(file_paths)
             file_type == Head(file_types)
             rest == ProcessedDocuments(Tail(file_paths), Tail(file_types))
         IN  IF file_path \notin ExistingPaths THEN rest
             ELSE IF file_type \notin ParserTypes THEN rest
             ELSE IF file_path \notin ParsablePaths THEN rest
             ELSE <<ParsedDocument(file_path, file_type)>> \o rest

\* The except clause of handle_ingestion_request: ingestion_agent.py:74-89
IngestionFailure(error, store) ==
    Outcome("reply", "INGESTION_RESPONSE",
            [success |-> FALSE, processed_files |-> <<>>, chunks_created |-> 0,
             error_message |-> error],
            store)

\* ingestion_agent.py:34-89
HandleIngestionRequest(message, store) ==
    IF {"file_paths", "file_types"} \subseteq DOMAIN message.payload
    THEN LET processed_documents ==
                 ProcessedDocuments(message.payload.file_paths, message.payload.file_types)
         IN  { Outcome("reply", "INGESTION_RESPONSE",
                       [success |-> Len(processed_documents) > 0,
                        processed_files |->
                            [i \in 1..Len(processed_documents) |->
                                processed_documents[i].metadata.file_path],
                        chunks_created |-> 0,
                        error_message |-> NoneStr,
                        processed_documents |-> processed_documents],
                       store),
               \* an exception outside the per-file try
               IngestionFailure("error", store) }
    ELSE {IngestionFailure("validation error", store)}

\* chroma_store.py:45-83: one chunk per document here.
AddDocuments(store, documents) ==
    store \o [i \in 1..Len(documents) |->
                 [content |-> documents[i].content,
                  metadata |-> [file_type |-> documents[i].metadata.file_type,
                                file_path |-> documents[i].metadata.file_path,
                                chunk_index |-> 0, chunk_count |-> 1]]]

\* retrieval_agent.py:28-56
HandleIngestionResponse(message, store) ==
    IF Get(message.payload, "success", FALSE) /\ "processed_documents" \in DOMAIN message.payload
    THEN LET added == AddDocuments(store, message.payload.processed_documents)
         IN  { Outcome("reply", "STATUS",
                       [status |-> "documents_indexed",
                        chunks_created |-> Len(message.payload.processed_documents)],
                       added),
               \* add_documents raised: caught, and None is returned
               ReturnsNone(store) }
    ELSE {ReturnsNone(store)}

\* The payload of the message a callback received, once the callback has
\* ended with outcome: handle_ingestion_response writes the chunk count into
\* it after add_documents succeeded (retrieval_agent.py:31, 40).
PayloadAfter(callback, message, outcome) ==
    IF /\ callback = "RetrievalAgent"
       /\ message.type = "INGESTION_RESPONSE"
       /\ outcome.out = "reply"
    THEN DictSet(message.payload, "chunks_created", outcome.payload.chunks_created)
    ELSE message.payload

\* A faulty variant of SimilaritySearch: top_k results whatever the store holds.
SimilaritySearch_Padded(store, top_k) ==
    [i \in 1..top_k |->
        IF i <= Len(store) THEN store[i] ELSE [content |-> "", metadata |-> EmptyDict]]

\* chroma_store.py:85-106: at most top_k chunks, fewer when the store holds fewer
SimilaritySearch(store, top_k) ==
    SubSeq(store, 1, IF Len(store) < top_k THEN Len(store) ELSE top_k)

\* A faulty variant of RetrievalFailure: the exception leaves the handler.
RetrievalFailure_Escapes(error, store) == Raises(store)

\* The except clause of handle_retrieval_request: retrieval_agent.py:94-102
RetrievalFailure(error, store) == Outcome("reply", "ERROR", [error |-> error], store)

\* retrieval_agent.py:58-102
HandleRetrievalRequest(message, store) ==
    IF {"query", "top_k"} \subseteq DOMAIN message.payload
    THEN LET results == SimilaritySearch(store, message.payload.top_k)
         IN  { Outcome("reply", "RETRIEVAL_RESPONSE",
                       [retrieved_chunks |->
                            [i \in 1..Len(results) |->
                                [content |-> results[i].content,
                                 metadata |-> results[i].metadata]],
                        similarity_scores |-> [i \in 1..Len(results) |-> "score"],
                        query |-> message.payload.query],
                       store),
               \* similarity_search raised
               RetrievalFailure("search failed", store) }
    ELSE {RetrievalFailure("validation error", store)}

\* A faulty variant of LastTurns: every turn is kept.
LastTurns_All(turns, n) == turns

\* Python's turns[-n:]: the last n entries, all of them when there are fewer
\* (llm_response_agent.py:34).
LastTurns(turns, n) ==
    IF Len(turns) > n THEN SubSeq(turns, Len(turns) - n + 1, Len(turns)) ELSE turns

\* llm_response_agent.py:27-58: the parts of the prompt that vary; history_text
\* holds one User: / Assistant: pair of lines per turn.
CreatePrompt(query, context, history) ==
    LET recent == LastTurns(history, GroundingTurns)
    IN  [context |-> context,
         history_text |-> [i \in 1..Len(recent) |->
                              [user |-> Get(recent[i], "user", ""),
                               assistant |-> Get(recent[i], "assistant", "")]],
         query |-> query]

\* The prompts generate_content has received once callback has handled message:
\* handle_llm_request builds one after the payload validated
\* (llm_response_agent.py:83-93).
PromptsAfter(callback, message, sent) ==
    IF /\ callback = "LLMResponseAgent"
       /\ message.type = "LLM_REQUEST"
       /\ {"query", "context"} \subseteq DOMAIN message.payload
    THEN Append(sent, CreatePrompt(message.payload.query, message.payload.context,
                                   Get(message.payload, "conversation_history", <<>>)))
    ELSE sent

\* The parts of a file path between its '/' characters.
PathParts(file_path) ==
    IF file_path = "dir/a.pdf" THEN <<"dir", "a.pdf">> ELSE <<file_path>>

\* file_path.split('/')[-1] if '/' in file_path else file_path
\* (llm_response_agent.py:69)
FileName(file_path) == Last(PathParts(file_path))

\* The section of a source that names none.
NoSection == 0

\* A faulty variant of SourceOf: the section is left out of the text.
SourceOf_NoSection(chunk) ==
    LET metadata == Get(chunk, "metadata", EmptyDict)
    IN  [filename |-> FileName(Get(metadata, "file_path", "Unknown")),
         file_type |-> Get(metadata, "file_type", "Unknown"),
         section |-> NoSection]

\* The text extract_sources makes for one chunk (llm_response_agent.py:64-73),
\* f"{filename} ({file_type})" followed, when the metadata has a chunk_index,
\* by f" - Section {chunk_index + 1}"; held as its three varying parts.
SourceOf(chunk) ==
    LET metadata == Get(chunk, "metadata", EmptyDict)
    IN  [filename |-> FileName(Get(metadata, "file_path", "Unknown")),
         file_type |-> Get(metadata, "file_type", "Unknown"),
         section |-> IF "chunk_index" \in DOMAIN metadata
                     THEN metadata.chunk_index + 1 ELSE NoSection]

RECURSIVE ExtractSources(_)
\* llm_response_agent.py:60-78
ExtractSources(retrieved_chunks) ==
    IF retrieved_chunks = <<>> THEN <<>>
    ELSE LET sources == ExtractSources(SubSeq(retrieved_chunks, 1, Len(retrieved_chunks) - 1))
             source == SourceOf(Last(retrieved_chunks))
         IN  IF source \in Range(sources) THEN sources ELSE Append(sources, source)

\* The number of characters of a piece of text: the text parsed from a file,
\* and the separator the coordinator joins the chunks with.
TextChars(text) ==
    IF text = "a.pdf" THEN 999
    ELSE IF text = "b.txt" THEN 799
    ELSE IF text = "\n\n" THEN 2
    ELSE 1

RECURSIVE ContextLength(_)
\* len(context), the context being the pieces joined
ContextLength(context) ==
    IF context = <<>> THEN 0
    ELSE TextChars(Head(context)) + ContextLength(Tail(context))

\* The unit confidence scores are held in: 1 / ConfidenceScale.
ConfidenceScale == 2000

\* 0.9, in units of 1 / ConfidenceScale
ConfidenceCap == (9 * ConfidenceScale) \div 10

\* A faulty variant of Confidence: the cap is missing.
Confidence_Uncapped(context) == ContextLength(context)

\* min(0.9, len(request_data.context) / 2000), llm_response_agent.py:105, in
\* units of 1 / ConfidenceScale
Confidence(context) ==
    IF ContextLength(context) < ConfidenceCap THEN ContextLength(context) ELSE ConfidenceCap

\* The except clause of handle_llm_request: llm_response_agent.py:121-129;
\* error is the text f"LLM generation failed: {str(e)}".
LLMFailure(error, store) == Outcome("reply", "ERROR", [error |-> error], store)

\* llm_response_agent.py:80-129
HandleLLMRequest(message, store) ==
    IF {"query", "context"} \subseteq DOMAIN message.payload
    THEN { Outcome("reply", "LLM_RESPONSE",
                   [answer |-> "answer",
                    sources |-> IF "retrieved_chunks" \in DOMAIN message.payload
                                THEN ExtractSources(message.payload.retrieved_chunks)
                                ELSE <<>>,
                    confidence |-> Confidence(message.payload.context)],
                   store),
           \* generate_content raised
           LLMFailure("LLM generation failed: error", store) }
    ELSE {LLMFailure("LLM generation failed: validation error", store)}

\* process_message of each agent (ingestion_agent.py:28-32, retrieval_agent.py:20-26,
\* llm_response_agent.py:21-25, coordinator_agent.py:19-28) and the clients' callbacks.
HandlerOutcomes(callback, message, store) ==
    IF callback = "IngestionAgent"
    THEN IF message.type = "INGESTION_REQUEST"
         THEN HandleIngestionRequest(message, store) ELSE {ReturnsNone(store)}
    ELSE IF callback = "RetrievalAgent"
    THEN IF message.type = "RETRIEVAL_REQUEST" THEN HandleRetrievalRequest(message, store)
         ELSE IF message.type = "INGESTION_RESPONSE"
         THEN HandleIngestionResponse(message, store)
         ELSE {ReturnsNone(store)}
    ELSE IF callback = "LLMResponseAgent"
    THEN IF message.type = "LLM_REQUEST"
         THEN HandleLLMRequest(message, store) ELSE {ReturnsNone(store)}
    ELSE IF callback = "CoordinatorAgent"
    THEN {ReturnsNone(store)}
    ELSE { Outcome("reply", "STATUS", [status |-> "ok"], store),
           ReturnsNone(store), Raises(store) }

\* The name a callback's reply carries as its sender: self.name.
SenderName(callback, message) ==
    IF callback \in AgentNames THEN callback ELSE message.receiver

\* A faulty variant of ReplyMessage: the reply starts a trace of its own.
ReplyMessage_OwnTrace(callback, message, outcome, message_id) ==
    [message_id |-> message_id, trace_id |-> message_id,
     sender |-> message.receiver, receiver |-> message.sender,
     type |-> outcome.type, payload |-> outcome.payload]

\* The message a callback returns: a new MCPMessage (a new uuid4 message_id)
\* with the request's trace_id, addressed to the request's sender
\* (retrieval_agent.py:86-92 and the like).
ReplyMessage(callback, message, outcome, message_id) ==
    MCPMessage(message_id, message.trace_id, SenderName(callback, message),
               IF outcome.type = "STATUS" /\ callback = "RetrievalAgent"
               THEN "CoordinatorAgent" ELSE message.sender,
               outcome.type, outcome.payload)

---------------------------------------------------------------------------
(* The coordinator's two operations: coordinator_agent.py:30-77 and 79-161. *)
(*   pc      "ingestion", "indexing" (process_documents) or "retrieval",    *)
(*           "llm" (answer_question): the bus call the coroutine awaits;    *)
(*           "done": it has returned result                                 *)
(*   call    the awaited call's place in tasks                              *)
(*   locals  the local variables it holds across the await                  *)
(*   elapsed the ticks since the operation began, counted up to MaxTicks    *)

NoResult == [pending |-> TRUE]

NewWorkflow(op, trace_id, session_id, query, call) ==
    [op |-> op, trace_id |-> trace_id, session_id |-> session_id, query |-> query,
     pc |-> IF op = "upload" THEN "ingestion" ELSE "retrieval",
     call |-> call, locals |-> [none |-> TRUE], result |-> NoResult, elapsed |-> 0]

Finish(s, w, result) ==
    [s EXCEPT !.workflows[w].pc = "done", !.workflows[w].result = result]

\* str(e) of the exception a call ended with: str(asyncio.TimeoutError()) is "".
ExceptionText(outcome) == IF outcome = "timeout" THEN "" ELSE "callback failed"

RECURSIVE JoinWith(_, _)
\* sep.join(values)
JoinWith(values, sep) ==
    IF values = <<>> THEN <<>>
    ELSE IF Len(values) = 1 THEN <<values[1]>>
    ELSE <<values[1], sep>> \o JoinWith(Tail(values), sep)

\* sep.join of the chunks' contents: coordinator_agent.py:106
ContextOf(retrieved_chunks) ==
    JoinWith([i \in 1..Len(retrieved_chunks) |-> retrieved_chunks[i].content], "\n\n")

\* A faulty variant of StoredTurns: the turns read before the generation
\* request are appended to.
StoredTurns_Snapshot(histories, session_id, snapshot) == snapshot

\* The list answer_question appends its turn to, once the generation reply
\* is in: the session's list as stored now, a new one when the session is not
\* stored (coordinator_agent.py:135-138); snapshot is the list it read before
\* the request (coordinator_agent.py:109).
StoredTurns(histories, session_id, snapshot) == Get(histories, session_id, <<>>)

\* A faulty variant of StoreTurns: the dict is replaced by one of this session.
StoreTurns_Alone(histories, session_id, turns) == [sid \in {session_id} |-> turns]

\* self.conversation_history[session_id] = turns: coordinator_agent.py:136-146
StoreTurns(histories, session_id, turns) == DictSet(histories, session_id, turns)

\* A faulty variant of KeepLastTurns: the newest turns are dropped.
KeepLastTurns_First(turns) ==
    IF Len(turns) > MaxTurns THEN SubSeq(turns, 1, MaxTurns) ELSE turns

\* coordinator_agent.py:143-146
KeepLastTurns(turns) ==
    IF Len(turns) > MaxTurns THEN SubSeq(turns, Len(turns) - MaxTurns + 1, Len(turns))
    ELSE turns

RECURSIVE BeginCall(_, _, _, _, _)

\* A faulty variant of IngestionFailed: the reply's success flag is not read.
IngestionFailed_Never(response) == FALSE

\* coordinator_agent.py:49: not ingestion_response.payload.get('success')
IngestionFailed(response) == ~Get(response.payload, "success", FALSE)

\* process_documents resumes with its awaited call ended: coordinator_agent.py:49-77
UploadResume(s, w, call) ==
    LET wf == s.workflows[w]
    IN  IF wf.pc = "ingestion"
        THEN IF call.outcome # "returned"
             THEN Finish(s, w, [success |-> FALSE, error |-> ExceptionText(call.outcome)])
             ELSE IF IngestionFailed(call.result)
             THEN Finish(s, w, [success |-> FALSE,
                                error |-> Get(call.result.payload, "error_message",
                                              "Document processing failed")])
             ELSE LET retrieval_message ==
                          MCPMessage(s.next_id, wf.trace_id, "CoordinatorAgent",
                                     "RetrievalAgent", "INGESTION_RESPONSE",
                                     call.result.payload)
                  IN  BeginCall([s EXCEPT !.next_id = Uuid4(@),
                                          !.workflows[w].pc = "indexing",
                                          !.workflows[w].call = Len(s.tasks) + 1,
                                          !.workflows[w].locals =
                                              [ingestion_response |-> call.result]],
                                "publish", retrieval_message, 0, w)
        ELSE IF call.outcome # "returned"
             THEN Finish(s, w, [success |-> FALSE, error |-> ExceptionText(call.outcome)])
             ELSE Finish(s, w,
                         [success |-> TRUE,
                          processed_files |->
                              Get(wf.locals.ingestion_response.payload, "processed_files", <<>>),
                          message |-> "Documents processed and indexed successfully"])

\* A faulty variant of IsError: an Error reply is taken for a response.
IsError_Never(response) == FALSE

\* coordinator_agent.py:98 and 129: response.type == MessageType.ERROR
IsError(response) == response.type = "ERROR"

\* answer_question resumes with its awaited call ended: coordinator_agent.py:98-161
QuestionResume(s, w, call) ==
    LET wf == s.workflows[w]
    IN  IF call.outcome # "returned"
        THEN Finish(s, w, [success |-> FALSE, error |-> ExceptionText(call.outcome)])
        ELSE IF wf.pc = "retrieval"
        THEN IF IsError(call.result)
             THEN Finish(s, w, [success |-> FALSE,
                                error |-> Get(call.result.payload, "error", "Retrieval failed")])
             ELSE LET retrieved_chunks == Get(call.result.payload, "retrieved_chunks", <<>>)
                      context == ContextOf(retrieved_chunks)
                      history == Get(s.conversation_history, wf.session_id, <<>>)
                      llm_message ==
                          MCPMessage(s.next_id, wf.trace_id, "CoordinatorAgent",
                                     "LLMResponseAgent", "LLM_REQUEST",
                                     [query |-> wf.query, context |-> context,
                                      conversation_history |-> history,
                                      retrieved_chunks |-> retrieved_chunks])
                  IN  BeginCall([s EXCEPT !.next_id = Uuid4(@),
                                          !.workflows[w].pc = "llm",
                                          !.workflows[w].call = Len(s.tasks) + 1,
                                          !.workflows[w].locals =
                                              [retrieved_chunks |-> retrieved_chunks]],
                                "request_response", llm_message, LLMTimeout \div TimeUnit, w)
        ELSE IF IsError(call.result)
             THEN Finish(s, w, [success |-> FALSE,
                                error |-> Get(call.result.payload, "error",
                                              "LLM generation failed")])
             ELSE IF "answer" \notin DOMAIN call.result.payload
             THEN \* llm_response.payload['answer'] raises KeyError, after the
                  \* session's list was created (coordinator_agent.py:136-137)
                  Finish([s EXCEPT !.conversation_history =
                                       IF wf.session_id \in DOMAIN @ THEN @
                                       ELSE DictSet(@, wf.session_id, <<>>)],
                         w, [success |-> FALSE, error |-> "'answer'"])
             ELSE LET turn == [user |-> wf.query, assistant |-> call.result.payload.answer]
                      turns == Append(StoredTurns(s.conversation_history, wf.session_id,
                                                  call.message.payload.conversation_history),
                                      turn)
                  IN  Finish([s EXCEPT !.conversation_history =
                                          StoreTurns(@, wf.session_id, KeepLastTurns(turns))],
                             w,
                             [success |-> TRUE,
                              answer |-> call.result.payload.answer,
                              sources |-> Get(call.result.payload, "sources", <<>>),
                              confidence |-> Get(call.result.payload, "confidence", 0),
                              retrieved_chunks |-> wf.locals.retrieved_chunks])

\* The coroutine awaiting call t runs on.
Resume(s, t) ==
    LET call == s.tasks[t]
    IN  IF call.caller = 0 THEN s
        ELSE IF s.workflows[call.caller].op = "upload"
        THEN UploadResume(s, call.caller, call)
        ELSE QuestionResume(s, call.caller, call)

---------------------------------------------------------------------------
(* publish and request_response, step by step *)

\* A faulty variant of AfterPublish: the reply of publish is not looked at.
AfterPublish_AlwaysWait(response) == "wait"

\* request_response once its publish has returned response: message_bus.py:52-55
AfterPublish(response) == IF response # None THEN "return" ELSE "wait"

\* The publish of call t has returned response (message_bus.py:42 or 38);
\* request_response goes on from message_bus.py:51.
PublishReturned(s, t, response) ==
    LET call == s.tasks[t]
        returned == [call EXCEPT !.pc = "done", !.published = TRUE, !.response = response,
                                 !.outcome = "returned", !.result = response]
    IN  IF call.op = "publish"
        THEN Resume([s EXCEPT !.tasks[t] = returned], t)
        ELSE IF AfterPublish(response) = "return"
        THEN Resume([s EXCEPT !.tasks[t] = returned,
                              !.pending_responses =
                                  FinallyRemove(@, call.message.message_id)], t)
        ELSE [s EXCEPT !.tasks[t] = [call EXCEPT !.pc = "wait", !.published = TRUE,
                                                 !.waited = 0]]

\* An exception leaves the publish of call t, and request_response through
\* its finally clause.
PublishRaised(s, t) ==
    LET call == s.tasks[t]
    IN  Resume([s EXCEPT !.tasks[t] = [call EXCEPT !.pc = "done", !.outcome = "raised"],
                         !.pending_responses =
                             IF call.op = "request_response"
                             THEN FinallyRemove(@, call.message.message_id) ELSE @], t)

\* A faulty variant of RecordMessage: the message is logged twice.
RecordMessage_Twice(history, message) == Append(Append(history, message), message)

\* publish: self.message_history.append(message), message_bus.py:25
RecordMessage(history, message) == Append(history, message)

\* The trace_id get_message_history takes as not given: None (or '').
NoTrace == 0

\* get_message_history(trace_id): message_bus.py:63-67
GetMessageHistory(history, trace_id) ==
    IF trace_id # NoTrace
    THEN SelectWhere(history, {i \in 1..Len(history) : history[i].trace_id = trace_id})
    ELSE IF Len(history) > HistoryWindow
         THEN SubSeq(history, Len(history) - HistoryWindow + 1, Len(history))
         ELSE history

\* message_bus.py:23-33 (publish) and 44-50 (request_response), up to the
\* first `await callback(message)` or, with no callback to run, beyond.
BeginCall(s, op, message, timeout, caller) ==
    LET t == Len(s.tasks) + 1
        s1 == [s EXCEPT !.tasks = Append(@, NewCall(op, message, timeout, caller)),
                        !.pending_responses =
                            IF op = "request_response"
                            THEN DictSet(@, message.message_id, t) ELSE @,
                        !.message_history = RecordMessage(@, message)]
    IN  IF DeliveryOrder(s.subscribers, message) = <<>>
        THEN PublishReturned(s1, t, None)
        ELSE s1

\* The running callback of call t ends with outcome o: message_bus.py:35-42.
CallbackReturned(s, t, o) ==
    LET call == s.tasks[t]
        order == DeliveryOrder(s.subscribers, call.message)
        callback == order[call.pos]
        reply == IF o.out = "reply"
                 THEN ReplyMessage(callback, call.message, o, s.next_id) ELSE None
        after_payload == PayloadAfter(callback, call.message, o)
        \* the message object of call t in the history: one entry per call
        entry == t + Len(s.message_history) - Len(s.tasks)
        s1 == [s EXCEPT !.next_id = IF o.out = "reply" THEN Uuid4(@) ELSE @,
                        !.vector_store = o.store,
                        !.prompts = PromptsAfter(callback, call.message, @),
                        !.message_history =
                            IF after_payload = call.message.payload THEN @
                            ELSE [@ EXCEPT ![entry].payload = after_payload],
                        !.tasks[t].invoked =
                            Append(@, [callback |-> callback, out |-> o.out, reply |-> reply])]
        after == AfterCallback(o.out)
    IN  IF after = "return" THEN PublishReturned(s1, t, reply)
        ELSE IF after = "raise" THEN PublishRaised(s1, t)
        ELSE IF call.pos < Len(order) THEN [s1 EXCEPT !.tasks[t].pos = @ + 1]
        ELSE PublishReturned(s1, t, None)

\* wait_for raises TimeoutError in call t: message_bus.py:55-61.
TimeoutRaised(s, t) ==
    LET call == s.tasks[t]
    IN  Resume([s EXCEPT !.tasks[t] = [call EXCEPT !.pc = "done", !.outcome = "timeout"],
                         !.pending_responses = FinallyRemove(@, call.message.message_id)], t)

---------------------------------------------------------------------------
(* The bus and its clients *)

\* What the clients of the bus pass: agent names, subscription lists, message
\* types, and a callback of its own with each subscribe call.
ClientSubscriptions ==
    { [agent_name |-> "RetrievalAgent", message_types |-> <<"RETRIEVAL_REQUEST">>],
      [agent_name |-> "RetrievalAgent",
       message_types |-> <<"RETRIEVAL_REQUEST", "INGESTION_RESPONSE">>] }

ClientAddresses ==
    { [receiver |-> "RetrievalAgent", type |-> "RETRIEVAL_REQUEST"],
      [receiver |-> "RetrievalAgent", type |-> "INGESTION_RESPONSE"],
      [receiver |-> "LLMResponseAgent", type |-> "RETRIEVAL_REQUEST"] }

ClientTrace == -1

ClientTraces == {ClientTrace, ClientTrace - 1}

ClientCallback(n) == <<"h1", "h2", "h3", "h4", "h5", "h6">>[n]

InDelivery == \E t \in 1..Len(tasks) : tasks[t].pc = "callback"

Init ==
    /\ subscribers = <<>>
    /\ message_history = <<>>
    /\ pending_responses = EmptyDict
    /\ registrations = <<>>
    /\ tasks = <<>>
    /\ next_id = 1
    /\ agents = {}
    /\ workflows = <<>>
    /\ conversation_history = EmptyDict
    /\ vector_store = <<>>
    /\ prompts = <<>>

\* MessageBus.subscribe: message_bus.py:15-21
Subscribe(agent_name, message_types, callback) ==
    /\ Len(registrations) < MaxSubscribe
    /\ ~InDelivery
    /\ subscribers' = SubscribeTo(subscribers, agent_name, message_types, callback)
    /\ registrations' = Append(registrations,
                               [agent_name |-> agent_name, message_types |-> message_types,
                                callback |-> callback])
    /\ UNCHANGED <<message_history, pending_responses, tasks, next_id, agents,
                   workflows, conversation_history, vector_store, prompts>>

\* The ids a client's message may carry: a new uuid4, or, given as message_id,
\* the id of a request made before, waiting or ended (a reply keyed to it).
ClientIds ==
    {next_id} \cup {tasks[t].message.message_id :
                       t \in {u \in 1..Len(tasks) : tasks[u].op = "request_response"}}

\* A client awaits message_bus.publish(message)
ClientPublish(message_id, trace_id, receiver, type) ==
    /\ Len(tasks) < MaxCalls
    /\ Becomes(BeginCall([State EXCEPT !.next_id = IF message_id = next_id THEN Uuid4(@) ELSE @],
                         "publish",
                         MCPMessage(message_id, trace_id, "CoordinatorAgent", receiver, type,
                                    [data |-> "x"]),
                         0, 0))

\* A client awaits message_bus.request_response(message, timeout)
ClientRequest(trace_id, receiver, type, timeout) ==
    /\ Len(tasks) < MaxCalls
    /\ Becomes(BeginCall([State EXCEPT !.next_id = Uuid4(@)],
                         "request_response",
                         MCPMessage(next_id, trace_id, "CoordinatorAgent", receiver, type,
                                    [data |-> "x"]),
                         timeout \div TimeUnit, 0))

\* The callback call t awaits ends.
CallbackReturns(t) ==
    /\ tasks[t].pc = "callback"
    /\ \E o \in HandlerOutcomes(DeliveryOrder(subscribers, tasks[t].message)[tasks[t].pos],
                                tasks[t].message, vector_store) :
           Becomes(CallbackReturned(State, t, o))

\* The timer of call t's wait_for fires.
TimeoutFires(t) ==
    /\ tasks[t].pc = "wait"
    /\ TimerExpired(tasks[t])
    /\ Becomes(TimeoutRaised(State, t))

Waiting == {t \in 1..Len(tasks) : tasks[t].pc = "wait"}

Running == {t \in 1..Len(tasks) : /\ tasks[t].pc # "done"
                                  /\ tasks[t].op = "request_response"
                                  /\ tasks[t].caller # 0}

Active == {w \in 1..Len(workflows) : workflows[w].pc # "done"}

\* TimeUnit seconds pass; a timer that is due fires before more time passes.
Tick ==
    /\ \A t \in Waiting : tasks[t].waited < tasks[t].timeout
    /\ \/ Waiting # {}
       \/ \E t \in Running : tasks[t].elapsed <= tasks[t].timeout
       \/ \E w \in Active : workflows[w].elapsed < MaxTicks
    /\ tasks' = [t \in 1..Len(tasks) |->
                    [tasks[t] EXCEPT
                        !.waited = IF t \in Waiting THEN @ + 1 ELSE @,
                        !.elapsed = IF t \in Running /\ @ <= tasks[t].timeout
                                    THEN @ + 1 ELSE @]]
    /\ workflows' = [w \in 1..Len(workflows) |->
                        IF w \in Active /\ workflows[w].elapsed < MaxTicks
                        THEN [workflows[w] EXCEPT !.elapsed = @ + 1]
                        ELSE workflows[w]]
    /\ UNCHANGED <<subscribers, message_history, pending_responses, registrations, next_id,
                   agents, conversation_history, vector_store, prompts>>

Next ==
    \/ \E c \in ClientSubscriptions :
           Subscribe(c.agent_name, c.message_types, ClientCallback(Len(registrations) + 1))
    \/ \E i \in ClientIds, tr \in ClientTraces, a \in ClientAddresses :
           ClientPublish(i, tr, a.receiver, a.type)
    \/ \E a \in ClientAddresses :
           ClientRequest(ClientTrace, a.receiver, a.type, DefaultTimeout)
    \/ \E t \in 1..Len(tasks) : CallbackReturns(t)
    \/ \E t \in 1..Len(tasks) : TimeoutFires(t)
    \/ Tick

Spec == Init /\ [][Next]_vars

\* The numbers of messages published before the calls the model follows.
PriorMessageCounts == {0, HistoryWindow - 1, HistoryWindow}

\* The i-th of the messages published before.
PriorMessage(i) ==
    MCPMessage(i, ClientTrace, "CoordinatorAgent", "RetrievalAgent", "RETRIEVAL_REQUEST",
               [data |-> "x"])

\* The bus after k publish calls have ended: each appended its message to the
\* history (message_bus.py:25) and nothing removes one.
HistoryInit ==
    \E k \in PriorMessageCounts :
        /\ subscribers = <<>>
        /\ message_history = [i \in 1..k |-> PriorMessage(i)]
        /\ pending_responses = EmptyDict
        /\ registrations = <<>>
        /\ tasks = <<>>
        /\ next_id = k + 1
        /\ agents = {}
        /\ workflows = <<>>
        /\ conversation_history = EmptyDict
        /\ vector_store = <<>>
        /\ prompts = <<>>

HistoryNext ==
    \/ \E c \in ClientSubscriptions :
           Subscribe(c.agent_name, c.message_types, ClientCallback(Len(registrations) + 1))
    \/ \E i \in ClientIds, tr \in ClientTraces, a \in ClientAddresses :
           ClientPublish(i, tr, a.receiver, a.type)
    \/ \E t \in 1..Len(tasks) : CallbackReturns(t)

HistorySpec == HistoryInit /\ [][HistoryNext]_vars

\* The event loop runs a timer that is due, and time passes.
FairSpec ==
    Spec /\ WF_vars(Tick) /\ WF_vars(\E t \in 1..Len(tasks) : TimeoutFires(t))

---------------------------------------------------------------------------
(* The coordinator, the worker agents and the callers of the coordinator *)

\* What each agent passes to subscribe_to_messages in its constructor:
\* coordinator_agent.py:17, ingestion_agent.py:26, retrieval_agent.py:18,
\* llm_response_agent.py:19.
AgentSubscription(agent) ==
    IF agent = "CoordinatorAgent" THEN <<"STATUS">>
    ELSE IF agent = "IngestionAgent" THEN <<"INGESTION_REQUEST">>
    ELSE IF agent = "RetrievalAgent" THEN <<"RETRIEVAL_REQUEST", "INGESTION_RESPONSE">>
    ELSE <<"LLM_REQUEST">>

\* What the callers pass: upload batches, questions, sessions.
UploadBatches ==
    { [file_paths |-> <<"a.pdf", "c.xyz">>, file_types |-> <<"pdf", "xyz">>],
      [file_paths |-> <<"c.xyz">>, file_types |-> <<"xyz">>] }

\* The questions the callers ask, in the order they ask them: each call
\* brings a question of its own.
Queries == <<"q1", "q2", "q3">>

\* The question of the next call.
NextQuery == Queries[Len(workflows) + 1]

Sessions == {"s1", "s2"}

\* RetrievalRequest.top_k as answer_question sets it: coordinator_agent.py:92
TopK == 5

\* The bus and the coordinator are constructed; no worker agent is yet.
CoordInit ==
    /\ subscribers = SubscribeTo(<<>>, "CoordinatorAgent",
                                 AgentSubscription("CoordinatorAgent"), "CoordinatorAgent")
    /\ message_history = <<>>
    /\ pending_responses = EmptyDict
    /\ registrations = <<[agent_name |-> "CoordinatorAgent",
                          message_types |-> AgentSubscription("CoordinatorAgent"),
                          callback |-> "CoordinatorAgent"]>>
    /\ tasks = <<>>
    /\ next_id = 1
    /\ agents = {}
    /\ workflows = <<>>
    /\ conversation_history = EmptyDict
    /\ vector_store = <<>>
    /\ prompts = <<>>

\* A worker agent is constructed: base_agent.py:10-23
ConstructAgent(agent) ==
    /\ agent \notin agents
    /\ ~InDelivery
    /\ agents' = agents \cup {agent}
    /\ subscribers' = SubscribeTo(subscribers, agent, AgentSubscription(agent), agent)
    /\ registrations' = Append(registrations,
                               [agent_name |-> agent,
                                message_types |-> AgentSubscription(agent),
                                callback |-> agent])
    /\ UNCHANGED <<message_history, pending_responses, tasks, next_id, workflows,
                   conversation_history, vector_store, prompts>>

\* process_documents(file_paths, file_types) up to its first suspension:
\* coordinator_agent.py:30-47
StartUpload(file_paths, file_types) ==
    /\ Len(workflows) < MaxWorkflows
    /\ LET trace_id == next_id
           ingestion_message ==
               MCPMessage(Uuid4(next_id), trace_id, "CoordinatorAgent", "IngestionAgent",
                          "INGESTION_REQUEST",
                          [file_paths |-> file_paths, file_types |-> file_types])
           w == Len(workflows) + 1
       IN  Becomes(BeginCall([State EXCEPT
                                 !.next_id = Uuid4(Uuid4(@)),
                                 !.workflows =
                                     Append(@, NewWorkflow("upload", trace_id, "", "",
                                                           Len(tasks) + 1))],
                             "request_response", ingestion_message,
                             IngestionTimeout \div TimeUnit, w))

\* answer_question(query, session_id) up to its first suspension:
\* coordinator_agent.py:79-96
StartQuestion(query, session_id) ==
    /\ Len(workflows) < MaxWorkflows
    /\ LET trace_id == next_id
           retrieval_message ==
               MCPMessage(Uuid4(next_id), trace_id, "CoordinatorAgent", "RetrievalAgent",
                          "RETRIEVAL_REQUEST", [query |-> query, top_k |-> TopK])
           w == Len(workflows) + 1
       IN  Becomes(BeginCall([State EXCEPT
                                 !.next_id = Uuid4(Uuid4(@)),
                                 !.workflows =
                                     Append(@, NewWorkflow("question", trace_id, session_id,
                                                           query, Len(tasks) + 1))],
                             "request_response", retrieval_message,
                             RetrievalTimeout \div TimeUnit, w))

\* A faulty variant of ClearHistory: every session is dropped.
ClearHistory_All(histories, session_id) == EmptyDict

\* The sessions' histories after clear_conversation_history(session_id):
\* coordinator_agent.py:169-170
ClearHistory(histories, session_id) ==
    IF session_id \in DOMAIN histories THEN DictDel(histories, session_id) ELSE histories

\* get_conversation_history(session_id): coordinator_agent.py:163-165
GetConversationHistory(histories, session_id) == Get(histories, session_id, <<>>)

\* clear_conversation_history(session_id): coordinator_agent.py:167-170
ClearConversationHistory(session_id) ==
    /\ conversation_history' = ClearHistory(conversation_history, session_id)
    /\ UNCHANGED <<subscribers, message_history, pending_responses, registrations, tasks,
                   next_id, agents, workflows, vector_store, prompts>>

CoordNext ==
    \/ \E a \in WorkerAgents : ConstructAgent(a)
    \/ \E b \in UploadBatches : StartUpload(b.file_paths, b.file_types)
    \/ \E sid \in Sessions : StartQuestion(NextQuery, sid)
    \/ \E sid \in Sessions : ClearConversationHistory(sid)
    \/ \E t \in 1..Len(tasks) : CallbackReturns(t)
    \/ \E t \in 1..Len(tasks) : TimeoutFires(t)
    \/ Tick

CoordSpec == CoordInit /\ [][CoordNext]_vars

---------------------------------------------------------------------------
(* The coordinator with its workers constructed and a session in use *)

\* The questions asked in session "s1" before, oldest first.
PriorQueries == <<"p1", "p2", "p3", "p4", "p5", "p6", "p7", "p8", "p9", "p10">>

\* The history of a session after its first k questions were answered:
\* coordinator_agent.py:135-141
PriorHistory(k) == [i \in 1..k |-> [user |-> PriorQueries[i], assistant |-> "answer"]]

\* The agents in the order they are constructed.
ConstructionOrder == <<"CoordinatorAgent", "IngestionAgent", "RetrievalAgent", "LLMResponseAgent">>

RECURSIVE SubscribeAll(_)
\* The subscribers after the first agents of ConstructionOrder subscribed.
SubscribeAll(constructed) ==
    IF constructed = <<>> THEN <<>>
    ELSE SubscribeTo(SubscribeAll(SubSeq(constructed, 1, Len(constructed) - 1)),
                     Last(constructed), AgentSubscription(Last(constructed)),
                     Last(constructed))

\* How many questions session "s1" has answered at the start: none, or
\* nearly as many or as many as it keeps.
PriorCounts == {0} \cup ((MaxTurns - 2)..MaxTurns)

\* Every agent is constructed, and session "s1" holds the turns of the
\* questions answered so far.  With every worker subscribed and replying
\* to its requests, no request_response gets to wait for its timeout.
SessionInit ==
    /\ subscribers = SubscribeAll(ConstructionOrder)
    /\ message_history = <<>>
    /\ pending_responses = EmptyDict
    /\ registrations = [i \in 1..Len(ConstructionOrder) |->
                           [agent_name |-> ConstructionOrder[i],
                            message_types |-> AgentSubscription(ConstructionOrder[i]),
                            callback |-> ConstructionOrder[i]]]
    /\ tasks = <<>>
    /\ next_id = 1
    /\ agents = WorkerAgents
    /\ workflows = <<>>
    /\ \E k \in PriorCounts :
           conversation_history =
               IF k = 0 THEN EmptyDict ELSE DictSet(EmptyDict, "s1", PriorHistory(k))
    /\ vector_store = <<>>
    /\ prompts = <<>>

SessionNext ==
    \/ \E sid \in Sessions : StartQuestion(NextQuery, sid)
    \/ \E sid \in Sessions : ClearConversationHistory(sid)
    \/ \E t \in 1..Len(tasks) : CallbackReturns(t)
    \/ Tick

SessionSpec == SessionInit /\ [][SessionNext]_vars

\* A chunk as similarity_search returns it through handle_retrieval_request
\* (retrieval_agent.py:73-77), with the metadata add_documents stored
\* (chroma_store.py:59-63): chunk number chunk_index of chunk_count of a file.
RetrievedChunk(file_path, file_type, chunk_index, chunk_count) ==
    [content |-> FileName(file_path),
     metadata |-> [file_type |-> file_type, file_path |-> file_path,
                   chunk_index |-> chunk_index, chunk_count |-> chunk_count]]

\* The chunk lists a retrieval hands to the generation step: none; the two
\* chunks of a long file; a file indexed twice, around another file; files
\* of one name in two directories; and lists of several context lengths.
RetrievedChunkLists ==
    { <<>>,
      <<RetrievedChunk("a.pdf", "pdf", 0, 2), RetrievedChunk("a.pdf", "pdf", 1, 2)>>,
      <<RetrievedChunk("a.pdf", "pdf", 0, 1), RetrievedChunk("b.txt", "txt", 0, 1),
        RetrievedChunk("a.pdf", "pdf", 0, 1)>>,
      <<RetrievedChunk("a.pdf", "pdf", 0, 1), RetrievedChunk("dir/a.pdf", "pdf", 0, 1)>>,
      <<RetrievedChunk("a.pdf", "pdf", 0, 1), RetrievedChunk("b.txt", "txt", 0, 1)>>,
      <<RetrievedChunk("b.txt", "txt", 0, 1)>> }

\* The generation step of answer_question on its own
\* (coordinator_agent.py:105-127): an LLM_REQUEST for retrieved_chunks.
GenerationRequest(retrieved_chunks) ==
    /\ Len(tasks) < MaxCalls
    /\ Becomes(BeginCall([State EXCEPT !.next_id = Uuid4(@)],
                         "request_response",
                         MCPMessage(next_id, ClientTrace, "CoordinatorAgent",
                                    "LLMResponseAgent", "LLM_REQUEST",
                                    [query |-> "q1",
                                     context |-> ContextOf(retrieved_chunks),
                                     conversation_history |-> <<>>,
                                     retrieved_chunks |-> retrieved_chunks]),
                         LLMTimeout \div TimeUnit, 0))

\* Every agent is constructed; nothing has been asked.
LLMInit ==
    /\ subscribers = SubscribeAll(ConstructionOrder)
    /\ message_history = <<>>
    /\ pending_responses = EmptyDict
    /\ registrations = [i \in 1..Len(ConstructionOrder) |->
                           [agent_name |-> ConstructionOrder[i],
                            message_types |-> AgentSubscription(ConstructionOrder[i]),
                            callback |-> ConstructionOrder[i]]]
    /\ tasks = <<>>
    /\ next_id = 1
    /\ agents = WorkerAgents
    /\ workflows = <<>>
    /\ conversation_history = EmptyDict
    /\ vector_store = <<>>
    /\ prompts = <<>>

LLMNext ==
    \/ \E retrieved_chunks \in RetrievedChunkLists : GenerationRequest(retrieved_chunks)
    \/ \E t \in 1..Len(tasks) : CallbackReturns(t)

LLMSpec == LLMInit /\ [][LLMNext]_vars

---------------------------------------------------------------------------
(* Properties of the bus *)

Calls == 1..Len(tasks)

Requests == {t \in Calls : tasks[t].op = "request_response"}

\* Call t published the t-th message of the history; a later message with the
\* same message_id is a reply keyed to it.
RepliesKeyedTo(t) ==
    {j \in (t + 1)..Len(message_history) :
        message_history[j].message_id = tasks[t].message.message_id}

\* C1: a request_response whose publish yields no reply stays suspended until a
\* response keyed to its message id is supplied, which it then returns, or
\* until the timeout: a waiting request for which a keyed reply has been
\* published does not end with the timeout error.
C1_KeyedReplyReachesCaller ==
    [][\A t \in Requests :
          (tasks[t].pc = "wait" /\ RepliesKeyedTo(t) # {})
              => ~(tasks'[t].pc = "done" /\ tasks'[t].outcome = "timeout")]_vars

\* C2: once a request_response call has finished, whatever its outcome, the
\* pending table holds no entry under its message id; the table holds entries
\* of calls in flight only, and is empty when none is.
C2_NoPendingLeak ==
    /\ \A t \in Requests :
           tasks[t].pc = "done" => tasks[t].message.message_id \notin DOMAIN pending_responses
    /\ DOMAIN pending_responses \subseteq
           {tasks[t].message.message_id : t \in {r \in Requests : tasks[r].pc # "done"}}

C2_Witness ==
    /\ \E t \in Requests : tasks[t].pc = "done" /\ tasks[t].outcome = "timeout"
    /\ \E t \in Requests : tasks[t].pc = "done" /\ tasks[t].outcome = "returned"

\* Request t found no subscriber: its publish returned without invoking a callback.
NoSubscriber(t) ==
    /\ t \in Requests
    /\ tasks[t].published
    /\ tasks[t].invoked = <<>>

TimedOut(t) ==
    /\ t \in Requests
    /\ tasks[t].pc = "done"
    /\ tasks[t].outcome = "timeout"
    /\ tasks[t].result = None
    /\ tasks[t].waited = tasks[t].timeout

\* C3: a request_response to a receiver with no subscriber fails with the
\* timeout error once the timeout has elapsed: it returns no message, does not
\* fail earlier, and does not stay suspended for ever.
C3_NoSubscriberTimesOut ==
    /\ [](\A t \in Requests : (NoSubscriber(t) /\ tasks[t].pc = "done") => TimedOut(t))
    /\ \A t \in 1..MaxCalls : NoSubscriber(t) ~> TimedOut(t)

C3_Witness == \E t \in Requests : NoSubscriber(t) /\ TimedOut(t)

\* The registrations that ask for message: same agent name, type in the list.
Matching(message) ==
    {i \in 1..Len(registrations) :
        /\ registrations[i].agent_name = message.receiver
        /\ message.type \in Range(registrations[i].message_types)}

Occurrences(s, x) == Cardinality({i \in 1..Len(s) : s[i] = x})

RegisteredCallbacks == {registrations[i].callback : i \in 1..Len(registrations)}

\* C7: publish invokes only callbacks registered under the message's receiver
\* for a list holding the message's type, and every such registration is a
\* delivery candidate.
C7_DeliveryOnlyToMatching ==
    \A t \in Calls :
        /\ \A i \in 1..Len(tasks[t].invoked) :
               \E r \in Matching(tasks[t].message) :
                   registrations[r].callback = tasks[t].invoked[i].callback
        /\ tasks[t].pc = "callback" =>
               LET order == DeliveryOrder(subscribers, tasks[t].message)
               IN  \A c \in RegisteredCallbacks \cup Range(order) :
                       Occurrences(order, c) =
                           Cardinality({r \in Matching(tasks[t].message) :
                                           registrations[r].callback = c})

C7_Witness ==
    \E t \in Calls :
        /\ tasks[t].pc = "done"
        /\ Len(tasks[t].invoked) >= 1
        /\ \E r \in 1..Len(registrations) : r \notin Matching(tasks[t].message)
        /\ \E u \in Calls : tasks[u].invoked = <<>> /\ tasks[u].published
                            /\ \E r \in 1..Len(registrations) :
                                   /\ registrations[r].agent_name # tasks[u].message.receiver
                                   /\ tasks[u].message.type
                                          \in Range(registrations[r].message_types)

\* C8: the callbacks matching one message, registered with the same or with
\* overlapping type lists, are invoked in the order of their subscribe calls.
C8_RegistrationOrder ==
    \A t \in Calls :
        LET matching == SelectWhere(registrations, Matching(tasks[t].message))
        IN  IsPrefix([i \in 1..Len(tasks[t].invoked) |-> tasks[t].invoked[i].callback],
                     [i \in 1..Len(matching) |-> matching[i].callback])

NoReply(invoked) == \A i \in 1..Len(invoked) : invoked[i].out # "reply"

\* C9: the first callback that returns a message ends the delivery: that
\* message is what publish returns and no later callback is invoked; with no
\* callback returning a message publish returns None.
C9_FirstResponderWins ==
    \A t \in Calls :
        LET invoked == tasks[t].invoked
        IN  /\ \A i \in 1..Len(invoked) : invoked[i].out = "reply" => i = Len(invoked)
            /\ ~NoReply(invoked) =>
                   /\ tasks[t].pc = "done" /\ tasks[t].outcome = "returned"
                   /\ tasks[t].response = Last(invoked).reply
                   /\ tasks[t].result = Last(invoked).reply
            /\ (tasks[t].published /\ NoReply(invoked)) => tasks[t].response = None
            /\ (tasks[t].op = "publish" /\ tasks[t].pc = "done" /\ NoReply(invoked)) =>
                   tasks[t].outcome = "returned" /\ tasks[t].result = None

C9_Witness ==
    \E t \in Calls :
        /\ tasks[t].pc = "done"
        /\ Len(tasks[t].invoked) = 2
        /\ tasks[t].invoked[1].out = "none"
        /\ tasks[t].invoked[2].out = "reply"
        /\ Len(SelectWhere(registrations, Matching(tasks[t].message))) = 3

\* C10: a callback that raises fails alone: publish does not raise, and goes on
\* to the next matching callback, or returns None when there is none left.
C10_RaiseDoesNotAbort ==
    [][\A t \in Calls :
          (/\ tasks[t].pc = "callback"
           /\ Len(tasks'[t].invoked) = Len(tasks[t].invoked) + 1
           /\ Last(tasks'[t].invoked).out = "raise")
          => /\ tasks'[t].outcome # "raised"
             /\ IF tasks[t].pos < Len(DeliveryOrder(subscribers, tasks[t].message))
                THEN tasks'[t].pc = "callback" /\ tasks'[t].pos = tasks[t].pos + 1
                ELSE tasks'[t].published /\ tasks'[t].response = None]_vars

C10_Witness ==
    \E t \in Calls :
        /\ Len(tasks[t].invoked) = 2
        /\ tasks[t].invoked[1].out = "raise"
        /\ tasks[t].invoked[2].out = "reply"

---------------------------------------------------------------------------
(* Properties of the coordinator's workflows *)

\* The request_response calls the coordinator's operations issue.
StageCalls == {t \in Requests : tasks[t].caller # 0}

\* C4: a request_response call whose stage has not produced a reply within
\* the call's timeout, its handler still running included, has ended with a
\* timeout error, and the coordinator operation that issued it has returned a
\* failed result.
C4_LateStageTimesOut ==
    \A t \in StageCalls :
        tasks[t].elapsed > tasks[t].timeout =>
            /\ tasks[t].outcome = "timeout"
            /\ workflows[tasks[t].caller].pc = "done"
            /\ workflows[tasks[t].caller].result.success = FALSE

\* The sum of the timeouts of the stages of an operation, in ticks.
StageTimeouts(op) ==
    IF op = "upload" THEN Ticks(IngestionTimeout)
    ELSE Ticks(RetrievalTimeout) + Ticks(LLMTimeout)

\* C5: no started upload or question workflow is still in processing, short
\* of its terminal outcome, once the sum of its stage timeouts has passed.
C5_TerminalWithinTimeouts ==
    \A w \in 1..Len(workflows) :
        workflows[w].pc # "done" => workflows[w].elapsed <= StageTimeouts(workflows[w].op)

\* C6: every message a worker agent returns for a request, a response or a
\* failure message, carries the request's message id as its correlation id.
C6_ReplyCarriesRequestId ==
    \A t \in Calls : \A i \in 1..Len(tasks[t].invoked) :
        (tasks[t].invoked[i].callback \in WorkerAgents /\ tasks[t].invoked[i].out = "reply")
            => tasks[t].invoked[i].reply.message_id = tasks[t].message.message_id

---------------------------------------------------------------------------
(* Properties of the history, of request_response and of the results *)

\* C11: after publish(m), get_message_history(m.trace_id) holds m once for
\* each publish of m: exactly once for a message published once, whatever
\* the delivery did (no subscriber, a handler that raised, an early reply).
C11_PublishedOnce ==
    \A t \in Calls :
        LET m == tasks[t].message
        IN  Occurrences(GetMessageHistory(message_history, m.trace_id), m)
                = Cardinality({u \in Calls : tasks[u].message = m})

C11_Witness ==
    \E t \in Calls :
        LET m == tasks[t].message
        IN  /\ tasks[t].pc = "done"
            /\ \E i \in 1..Len(tasks[t].invoked) : tasks[t].invoked[i].out = "raise"
            /\ \E i \in 1..Len(message_history) : message_history[i].trace_id # m.trace_id
            /\ Occurrences(GetMessageHistory(message_history, m.trace_id), m) = 1

\* The reply publish yielded in call t: that of the last callback it ran.
ImmediateReply(t) ==
    IF tasks[t].invoked # <<>> /\ Last(tasks[t].invoked).out = "reply"
    THEN Last(tasks[t].invoked).reply ELSE None

\* C12: a request_response whose publish yielded a reply, a matching handler
\* having returned a message, has returned exactly that message, and has not
\* waited on its timeout.
C12_ImmediateReplyReturned ==
    \A t \in Requests :
        ImmediateReply(t) # None =>
            /\ tasks[t].pc = "done"
            /\ tasks[t].outcome = "returned"
            /\ tasks[t].result = ImmediateReply(t)
            /\ tasks[t].waited = 0

C12_Witness ==
    \E t \in Requests :
        /\ ImmediateReply(t) # None
        /\ tasks[t].result = ImmediateReply(t)
        /\ tasks[t].timeout > 0

\* The requests whose wait has expired.
Expired == {t \in Requests : tasks[t].outcome = "timeout"}

\* Call t's wait expires in this step.
Expires(t) == tasks[t].pc = "wait" /\ tasks'[t].outcome = "timeout"

\* A publish of a message carrying message_id begins in this step.
PublishBegins(message_id) ==
    /\ Len(tasks') = Len(tasks) + 1
    /\ Last(tasks').op = "publish"
    /\ Last(tasks').message.message_id = message_id

\* C13: the expiry of a request_response's timeout removes that call's
\* pending entry and nothing else: the entries of the other requests in
\* flight stay as they were, no other call and no handler in progress is
\* touched; a reply keyed to the expired request that is published later
\* finds no pending entry, changes none, and is returned to no caller.
C13_ExpiryCancelsOnlyItsWait ==
    /\ [][\A t \in Requests :
            /\ Expires(t) =>
                  /\ pending_responses' =
                         [k \in DOMAIN pending_responses \ {tasks[t].message.message_id}
                             |-> pending_responses[k]]
                  /\ \A u \in Calls \ {t} : tasks'[u] = tasks[u]
                  /\ vector_store' = vector_store
            /\ (t \in Expired /\ PublishBegins(tasks[t].message.message_id)) =>
                  /\ tasks[t].message.message_id \notin DOMAIN pending_responses
                  /\ pending_responses' = pending_responses
                  /\ \A u \in Calls : tasks'[u] = tasks[u]]_vars
    /\ [](\A t \in Expired : \A p \in Calls :
            (tasks[p].op = "publish"
                /\ tasks[p].message.message_id = tasks[t].message.message_id)
              => \A u \in Requests : tasks[u].result # tasks[p].message)

C13_Witness ==
    \E t \in Expired : \E u \in Requests :
        /\ u # t
        /\ tasks[u].pc = "callback"
        /\ tasks[u].message.message_id \in DOMAIN pending_responses

\* A reply keyed to an expired request has been published.
C13_LateReply ==
    \E t \in Expired : \E p \in Calls :
        /\ tasks[p].op = "publish"
        /\ tasks[p].message.message_id = tasks[t].message.message_id
        /\ tasks[p].pc = "done"

\* The operations that have returned.
Returned == {w \in 1..Len(workflows) : workflows[w].pc = "done"}

\* C14: every result process_documents or answer_question returns has a
\* success flag; with success false its error is populated, neither None nor
\* the empty string; with success true it has the success payload.
C14_ResultHasPayloadOrError ==
    \A w \in Returned :
        LET result == workflows[w].result
        IN  /\ "success" \in DOMAIN result
            /\ result.success \in BOOLEAN
            /\ ~result.success =>
                   /\ "error" \in DOMAIN result
                   /\ result.error \notin {"", NoneStr}
            /\ result.success =>
                   IF workflows[w].op = "upload"
                   THEN "processed_files" \in DOMAIN result
                   ELSE "answer" \in DOMAIN result

\* The indexing step of upload w succeeded: its INGESTION_RESPONSE was
\* answered by the status documents_indexed.
Indexed(w) ==
    \E t \in Calls :
        /\ tasks[t].caller = w
        /\ tasks[t].message.type = "INGESTION_RESPONSE"
        /\ tasks[t].result # None
        /\ Get(tasks[t].result.payload, "status", "") = "documents_indexed"

\* The ingestion step of upload w succeeded.
Ingested(w) ==
    \E t \in Calls :
        /\ tasks[t].caller = w
        /\ tasks[t].message.type = "INGESTION_REQUEST"
        /\ tasks[t].result # None
        /\ Get(tasks[t].result.payload, "success", FALSE)

\* C15: an upload returns success only if both its ingestion step and its
\* indexing step succeeded; a failure of either makes the result an error.
C15_UploadSuccessNeedsBothSteps ==
    \A w \in Returned :
        (workflows[w].op = "upload" /\ workflows[w].result.success)
            => (Ingested(w) /\ Indexed(w))

\* The ingestion request of upload w.
IngestionCall(w) ==
    CHOOSE t \in Calls : tasks[t].caller = w /\ tasks[t].message.type = "INGESTION_REQUEST"

\* The files of a batch that parse, and whether one of its types is unsupported.
ParsedFiles(payload) ==
    LET documents == ProcessedDocuments(payload.file_paths, payload.file_types)
    IN  [i \in 1..Len(documents) |-> documents[i].metadata.file_path]

HasUnsupported(payload) ==
    \E i \in 1..Len(payload.file_types) : payload.file_types[i] \notin ParserTypes

\* The fields of an upload result that can hold its failures: `message` is
\* the same string for every successful upload (coordinator_agent.py:69).
FailureFields(result) == DOMAIN result \ {"success", "processed_files", "message"}

\* C16: an upload batch of which some files parse and others are of an
\* unsupported type, its ingestion request answered, returns success with
\* processed_files exactly the parsed files and with its failures enumerated.
C16_PartialBatchEnumeratesFailures ==
    \A w \in Returned :
        (/\ workflows[w].op = "upload"
         /\ tasks[IngestionCall(w)].outcome = "returned"
         /\ ParsedFiles(tasks[IngestionCall(w)].message.payload) # <<>>
         /\ HasUnsupported(tasks[IngestionCall(w)].message.payload))
        => /\ workflows[w].result.success
           /\ workflows[w].result.processed_files
                 = ParsedFiles(tasks[IngestionCall(w)].message.payload)
           /\ FailureFields(workflows[w].result) # {}

\* The question workflows whose retrieval step was answered with no chunk.
EmptyRetrieval ==
    {w \in 1..Len(workflows) :
        /\ workflows[w].op = "question"
        /\ \E t \in Calls :
              /\ tasks[t].caller = w
              /\ tasks[t].message.type = "RETRIEVAL_REQUEST"
              /\ tasks[t].result # None
              /\ tasks[t].result.type = "RETRIEVAL_RESPONSE"
              /\ tasks[t].result.payload.retrieved_chunks = <<>>}

\* C17: a question whose retrieval returns no chunk issues no generation
\* request, and its result is success with the fixed answer, no source and
\* confidence 0.
C17_EmptyIndexBypassesGeneration ==
    \A w \in EmptyRetrieval :
        /\ \A t \in Calls :
              tasks[t].caller = w => tasks[t].message.type # "LLM_REQUEST"
        /\ workflows[w].pc = "done"
        /\ workflows[w].result.success
        /\ workflows[w].result.sources = <<>>
        /\ workflows[w].result.confidence = 0

\* Question workflow w returns success in this step.
Succeeds(w) ==
    /\ workflows[w].op = "question"
    /\ workflows[w].pc # "done"
    /\ workflows'[w].pc = "done"
    /\ workflows'[w].result.success

\* The last n entries of s.
Newest(s, n) == SubSeq(s, Len(s) - n + 1, Len(s))

\* C18: each successful question call takes the stored turn count of its
\* session from n to min(n + 1, 10), so N calls leave min(N, 10) turns; the
\* turns kept are the most recent ones in the order they were appended, the
\* oldest being dropped first; and no session ever holds more than 10 turns.
C18_TurnsCappedFifo ==
    /\ [](\A sid \in DOMAIN conversation_history :
             Len(conversation_history[sid]) <= 10)
    /\ [][\A w \in 1..Len(workflows) :
            Succeeds(w) =>
                LET sid == workflows[w].session_id
                    old == Get(conversation_history, sid, <<>>)
                    all == Append(old, [user |-> workflows[w].query,
                                        assistant |-> workflows'[w].result.answer])
                    n == IF Len(all) < 10 THEN Len(all) ELSE 10
                IN  /\ sid \in DOMAIN conversation_history'
                    /\ conversation_history'[sid] = Newest(all, n)]_vars

C18_Witness ==
    /\ "s1" \in DOMAIN conversation_history
    /\ Len(conversation_history["s1"]) = 10
    /\ conversation_history["s1"][1].user = "p2"
    /\ conversation_history["s1"][10].user = "q1"

\* A step of question workflow w failed: a call it awaited ended with a
\* timeout or an exception, or was answered by an Error message.
StepFailed(w) ==
    \E t \in Calls :
        /\ tasks[t].caller = w
        /\ tasks[t].pc = "done"
        /\ \/ tasks[t].outcome # "returned"
           \/ tasks[t].result.type = "ERROR"

\* Question workflow w returns an error result in this step.
Fails(w) ==
    /\ workflows[w].op = "question"
    /\ workflows[w].pc # "done"
    /\ workflows'[w].pc = "done"
    /\ ~workflows'[w].result.success

\* C19: a question of which the retrieval or the generation step failed has
\* returned an error result; the step in which a question returns an error
\* leaves every session's turns as they were; and the turns change only
\* when a question returns success, or when a session is cleared.
C19_HistoryOnlyOnSuccess ==
    /\ [](\A w \in 1..Len(workflows) :
             (workflows[w].op = "question" /\ StepFailed(w))
                 => (workflows[w].pc = "done" /\ ~workflows[w].result.success))
    /\ [][\A w \in 1..Len(workflows) :
             Fails(w) => conversation_history' = conversation_history]_vars
    /\ [][conversation_history' # conversation_history =>
             \/ \E w \in 1..Len(workflows) : Succeeds(w)
             \/ \E sid \in DOMAIN conversation_history :
                    conversation_history' = DictDel(conversation_history, sid)]_vars

C19_Witness ==
    \E w \in Returned : \E v \in Returned :
        /\ workflows[w].op = "question" /\ workflows[w].result.success
        /\ workflows[v].op = "question" /\ ~workflows[v].result.success
        /\ workflows[v].session_id = workflows[w].session_id
        /\ \E t \in Calls : /\ tasks[t].caller = v
                            /\ tasks[t].message.type = "LLM_REQUEST"
                            /\ tasks[t].result.type = "ERROR"
        /\ workflows[w].session_id \in DOMAIN conversation_history
        /\ Len(conversation_history[workflows[w].session_id]) = 1

\* The turn a successful question workflow appended.
TurnOf(w) == [user |-> workflows[w].query, assistant |-> workflows[w].result.answer]

\* The place of a turn in a session's history.
PlaceOf(turn, turns) == CHOOSE i \in 1..Len(turns) : turns[i] = turn

\* The pairs of successful questions on one session, w received before v,
\* whose turns are both in the session's history.
BothAppended ==
    {p \in Returned \X Returned :
        /\ p[1] < p[2]
        /\ workflows[p[1]].op = "question" /\ workflows[p[1]].result.success
        /\ workflows[p[2]].op = "question" /\ workflows[p[2]].result.success
        /\ workflows[p[1]].session_id = workflows[p[2]].session_id
        /\ workflows[p[1]].session_id \in DOMAIN conversation_history
        /\ {TurnOf(p[1]), TurnOf(p[2])}
               \subseteq Range(conversation_history[workflows[p[1]].session_id])}

---------------------------------------------------------------------------
(* Properties of the stages, the replies and the messages *)

\* Call r, of the same workflow as call t and begun before it, is a request
\* of the given type that has received its reply.
RepliedBefore(r, t, type) ==
    /\ r < t
    /\ tasks[r].caller = tasks[t].caller
    /\ tasks[r].message.type = type
    /\ tasks[r].pc = "done"
    /\ tasks[r].outcome = "returned"
    /\ tasks[r].result # None

\* C21: in a question workflow the generation request is published only
\* after the retrieval request has received its reply; in an upload workflow
\* the indexing message is published only after the ingestion request has
\* received a successful reply.
C21_StagesInSequence ==
    \A t \in Calls :
        /\ (tasks[t].caller # 0 /\ tasks[t].message.type = "LLM_REQUEST")
              => \E r \in Calls : RepliedBefore(r, t, "RETRIEVAL_REQUEST")
        /\ (tasks[t].caller # 0 /\ tasks[t].message.type = "INGESTION_RESPONSE")
              => \E r \in Calls :
                     /\ RepliedBefore(r, t, "INGESTION_REQUEST")
                     /\ Get(tasks[r].result.payload, "success", FALSE)

C21_Witness ==
    /\ \E t \in Calls : tasks[t].caller # 0 /\ tasks[t].message.type = "LLM_REQUEST"
    /\ \E t \in Calls : tasks[t].caller # 0 /\ tasks[t].message.type = "INGESTION_RESPONSE"

\* The fields a CoordinatorAgent object holds: base_agent.py:11-12 and
\* coordinator_agent.py:15.
CoordinatorFields ==
    [name |-> "CoordinatorAgent",
     subscribed_messages |-> AgentSubscription("CoordinatorAgent"),
     conversation_history |-> conversation_history]

\* Those of its fields that can hold workflow records: all but its name,
\* its subscription list and the session map.
WorkflowTables ==
    DOMAIN CoordinatorFields \ {"name", "subscribed_messages", "conversation_history"}

\* The status a workflow's record is to show.
StatusOf(w) ==
    IF workflows[w].pc # "done" THEN "processing"
    ELSE IF workflows[w].result.success THEN "completed" ELSE "error"

\* C22: for every workflow it has started, the coordinator holds a record
\* keyed by the workflow's trace_id, whose status is processing until the
\* workflow ends and completed or error from then on.
C22_WorkflowRecordKept ==
    \A w \in 1..Len(workflows) :
        \E f \in WorkflowTables :
            /\ workflows[w].trace_id \in DOMAIN CoordinatorFields[f]
            /\ CoordinatorFields[f][workflows[w].trace_id].status = StatusOf(w)

\* The kinds the worker agents subscribe to as requests.
RequestKinds == {"INGESTION_REQUEST", "RETRIEVAL_REQUEST", "LLM_REQUEST"}

\* The runs of a worker agent's handler on a request: the call and the
\* place in its invoked list.
HandlerRuns ==
    {r \in UNION {{<<t, i>> : i \in 1..Len(tasks[t].invoked)} : t \in Calls} :
        /\ tasks[r[1]].invoked[r[2]].callback \in WorkerAgents
        /\ tasks[r[1]].message.type \in RequestKinds}

\* What a handler run ended with.
RunOf(r) == tasks[r[1]].invoked[r[2]]

\* The handler run ended on its failure path.
FailurePath(r) ==
    \/ RunOf(r).out = "raise"
    \/ /\ RunOf(r).out = "reply"
       /\ \/ RunOf(r).reply.type = "ERROR"
          \/ /\ RunOf(r).reply.type = "INGESTION_RESPONSE"
             /\ RunOf(r).reply.payload.error_message # NoneStr

\* C23: the handler of a worker agent, run on a request of a kind the agent
\* subscribes to as a request, returns a message, on its failure path as on
\* its happy path: it neither returns None nor lets an exception out.
C23_HandlerAlwaysReplies ==
    \A r \in HandlerRuns : RunOf(r).out = "reply" /\ RunOf(r).reply # None

C23_Witness ==
    /\ \E r \in HandlerRuns : RunOf(r).out = "reply" /\ FailurePath(r)
    /\ \E r \in HandlerRuns : RunOf(r).out = "reply" /\ ~FailurePath(r)

\* C24: the message a worker agent returns after catching an exception in
\* its stage has kind ERROR, and the workflow that sent the request has
\* returned an error result; for each of the three worker agents.
C24_CaughtExceptionIsErrorKind ==
    \A r \in HandlerRuns :
        (RunOf(r).out = "reply" /\ FailurePath(r)) =>
            /\ RunOf(r).reply.type = "ERROR"
            /\ tasks[r[1]].caller # 0 =>
                  /\ workflows[tasks[r[1]].caller].pc = "done"
                  /\ ~workflows[tasks[r[1]].caller].result.success

\* C25: no message is changed after it was created: the entry the history
\* holds for a call always equals the message that call published.
C25_MessagesNeverMutated ==
    \A t \in Calls : message_history[t] = tasks[t].message

\* The generation requests the coordinator has issued.
GenerationRequests ==
    {t \in Calls : tasks[t].message.type = "LLM_REQUEST" /\ tasks[t].caller # 0}

\* C26: the generation request the coordinator issues carries only the 3
\* most recent turns of the session, oldest first, also when the session
\* holds more turns.
C26_RequestCarriesLastThreeTurns ==
    /\ \A t \in GenerationRequests :
           Len(tasks[t].message.payload.conversation_history) <= 3
    /\ [][\A t \in Calls' \ Calls :
            (tasks'[t].message.type = "LLM_REQUEST" /\ tasks'[t].caller # 0) =>
                LET turns == Get(conversation_history,
                                 workflows[tasks'[t].caller].session_id, <<>>)
                    n == IF Len(turns) < 3 THEN Len(turns) ELSE 3
                IN  tasks'[t].message.payload.conversation_history =
                        [i \in 1..n |-> turns[Len(turns) - n + i]]]_vars

\* The handler of the LLM agent has just run on generation request t.
Generates(t) ==
    /\ tasks[t].message.type = "LLM_REQUEST"
    /\ Len(tasks'[t].invoked) = Len(tasks[t].invoked) + 1
    /\ tasks'[t].invoked[Len(tasks'[t].invoked)].callback = "LLMResponseAgent"

\* C27: the prompt built for a generation request holds the 3 most recent
\* turns of the conversation history the request carries, oldest first, and
\* all of them when there are fewer than 3; for histories of 0 to 10 turns.
C27_PromptHasLastThreeTurns ==
    [][\A t \in Calls :
          Generates(t) =>
              LET turns == tasks[t].message.payload.conversation_history
                  n == IF Len(turns) < 3 THEN Len(turns) ELSE 3
                  prompt == prompts'[Len(prompts')]
              IN  /\ Len(prompts') = Len(prompts) + 1
                  /\ prompt.query = tasks[t].message.payload.query
                  /\ Len(prompt.history_text) = n
                  /\ \A i \in 1..n :
                         prompt.history_text[i] = turns[Len(turns) - n + i]]_vars

C27_Witness ==
    /\ \E i \in 1..Len(prompts) : prompts[i].history_text = <<>>
    /\ \E i \in 1..Len(prompts) :
           /\ Len(prompts[i].history_text) = 3
           /\ \E t \in GenerationRequests :
                  /\ tasks[t].message.payload.query = prompts[i].query
                  /\ Len(tasks[t].message.payload.conversation_history) = 10

\* The calls workflow w has made on the bus.
CallsOf(w) == {t \in Calls : tasks[t].caller = w}

\* The messages the callbacks have returned in call t.
RepliesIn(t) ==
    {tasks[t].invoked[i].reply :
        i \in {j \in 1..Len(tasks[t].invoked) : tasks[t].invoked[j].out = "reply"}}

\* C28: every message an upload or a question call publishes, and every
\* reply a worker agent returns to one of them, carries the trace_id of that
\* call; two different calls never have the same trace_id.
C28_TraceIdPerWorkflow ==
    /\ \A w \in 1..Len(workflows) :
           \A t \in CallsOf(w) :
               /\ tasks[t].message.trace_id = workflows[w].trace_id
               /\ message_history[t].trace_id = workflows[w].trace_id
               /\ \A reply \in RepliesIn(t) : reply.trace_id = workflows[w].trace_id
    /\ \A v, w \in 1..Len(workflows) :
           v # w => workflows[v].trace_id # workflows[w].trace_id

C28_Witness ==
    \E v, w \in 1..Len(workflows) :
        /\ v # w
        /\ Cardinality(CallsOf(v)) = 2
        /\ \A t \in CallsOf(v) : RepliesIn(t) # {}
        /\ \E t \in CallsOf(w) : RepliesIn(t) # {}

\* The messages constructed so far: the one each call published and the
\* replies the callbacks returned, each named by where it was constructed.
Constructed ==
    {<<t, 0>> : t \in Calls} \cup
    UNION {{<<t, i>> : i \in {j \in 1..Len(tasks[t].invoked) :
                                  tasks[t].invoked[j].out = "reply"}} : t \in Calls}

MessageAt(c) == IF c[2] = 0 THEN tasks[c[1]].message ELSE tasks[c[1]].invoked[c[2]].reply

\* The requests whose request_response call has not ended.
InFlight == {t \in Requests : tasks[t].pc # "done"}

C30_HistoryBounded ==
    /\ Len(message_history) <= HistoryWindow
    /\ LET returned == GetMessageHistory(message_history, NoTrace)
           n == IF Len(message_history) < HistoryWindow
                THEN Len(message_history) ELSE HistoryWindow
       IN  returned = [i \in 1..n |-> message_history[Len(message_history) - n + i]]

\* No subscribe call so far named the receiver of message with its type.
Unsubscribed(message) ==
    \A i \in 1..Len(registrations) :
        \/ registrations[i].agent_name # message.receiver
        \/ message.type \notin Range(registrations[i].message_types)

\* C31: publish of a message whose receiver has no matching subscriber
\* invokes no callback, raises nothing and returns None, and leaves the
\* subscribers, the pending table and every other call as they were.
C31_UnmatchedPublishIsNoOp ==
    [][\A t \in Calls' \ Calls :
          (tasks'[t].op = "publish" /\ Unsubscribed(tasks'[t].message)) =>
              /\ tasks'[t].pc = "done"
              /\ tasks'[t].outcome = "returned"
              /\ tasks'[t].response = None
              /\ tasks'[t].invoked = <<>>
              /\ subscribers' = subscribers
              /\ pending_responses' = pending_responses
              /\ \A u \in Calls : tasks'[u] = tasks[u]]_vars

C31_Witness ==
    \E t \in Calls :
        /\ tasks[t].op = "publish"
        /\ Unsubscribed(tasks[t].message)
        /\ tasks[t].pc = "done"
        /\ \E i \in 1..Len(registrations) :
               registrations[i].agent_name = tasks[t].message.receiver
        /\ DOMAIN pending_responses # {}

\* The generation requests the LLM agent answered with an LLM_RESPONSE.
Answered ==
    {r \in HandlerRuns :
        /\ tasks[r[1]].message.type = "LLM_REQUEST"
        /\ RunOf(r).out = "reply"
        /\ RunOf(r).reply.type = "LLM_RESPONSE"}

\* The label "{filename} ({type})" of a chunk, as its two parts.
LabelOf(chunk) ==
    [filename |-> FileName(chunk.metadata.file_path), file_type |-> chunk.metadata.file_type]

RECURSIVE LabelsOf(_)
\* The labels of chunks, each once, in the order of first occurrence.
LabelsOf(chunks) ==
    IF chunks = <<>> THEN <<>>
    ELSE LET before == LabelsOf(SubSeq(chunks, 1, Len(chunks) - 1))
         IN  IF LabelOf(Last(chunks)) \in Range(before) THEN before
             ELSE Append(before, LabelOf(Last(chunks)))

\* C32: the sources of an answer are the labels "{filename} ({type})" of the
\* retrieved chunks, each exactly once however many chunks have it, in the
\* order of first occurrence.
C32_SourcesDedupedByLabel ==
    \A r \in Answered :
        LET sources == RunOf(r).reply.payload.sources
            chunks == tasks[r[1]].message.payload.retrieved_chunks
        IN  /\ [i \in 1..Len(sources) |->
                   [filename |-> sources[i].filename, file_type |-> sources[i].file_type]]
                 = LabelsOf(chunks)
            /\ \A i \in 1..Len(sources) : sources[i].section = NoSection

\* C34: the confidence of an answer is min(0.9, n / 2000), n being the number
\* of characters of the request's context: it does not decrease as n grows,
\* is never above 0.9, is 0.9 from n = 2000 on and 0 for the empty context.
\* (Scores are held in units of 1/2000, so 0.9 is 1800.)
C34_ConfidenceCappedMonotone ==
    \A r \in Answered :
        LET n == ContextLength(tasks[r[1]].message.payload.context)
            confidence == RunOf(r).reply.payload.confidence
        IN  /\ confidence = IF n < 1800 THEN n ELSE 1800
            /\ confidence <= 1800
            /\ n >= 2000 => confidence = 1800
            /\ n = 0 => confidence = 0
            /\ \A q \in Answered :
                   n <= ContextLength(tasks[q[1]].message.payload.context)
                       => confidence <= RunOf(q).reply.payload.confidence

C34_Witness ==
    /\ \E r \in Answered : ContextLength(tasks[r[1]].message.payload.context) = 2000
    /\ \E r \in Answered :
           /\ ContextLength(tasks[r[1]].message.payload.context) \in 1..1799
           /\ RunOf(r).reply.payload.confidence \in 1..1799

\* The retrieval agent's handler has just run on retrieval request t.
Retrieves(t) ==
    /\ tasks[t].message.type = "RETRIEVAL_REQUEST"
    /\ "top_k" \in DOMAIN tasks[t].message.payload
    /\ Len(tasks'[t].invoked) = Len(tasks[t].invoked) + 1
    /\ tasks'[t].invoked[Len(tasks'[t].invoked)].callback = "RetrievalAgent"

C35_SessionLivesUntilCleared ==
    /\ \A sid \in Sessions :
           LET cleared == ClearHistory(conversation_history, sid)
           IN  /\ GetConversationHistory(cleared, sid) = <<>>
               /\ DOMAIN cleared = DOMAIN conversation_history \ {sid}
               /\ \A other \in DOMAIN cleared : cleared[other] = conversation_history[other]
               /\ sid \notin DOMAIN conversation_history =>
                      /\ cleared = conversation_history
                      /\ GetConversationHistory(conversation_history, sid) = <<>>
    /\ [][\A sid \in DOMAIN conversation_history :
              sid \notin DOMAIN conversation_history' =>
                  /\ conversation_history' = [other \in DOMAIN conversation_history \ {sid}
                                                 |-> conversation_history[other]]
                  /\ UNCHANGED <<subscribers, message_history, pending_responses,
                                 registrations, tasks, next_id, agents, workflows,
                                 vector_store, prompts>>]_vars

C35_Witness ==
    /\ Len(workflows) = 2
    /\ \A w \in 1..2 : workflows[w].pc = "done" /\ workflows[w].result.success
    /\ workflows[1].session_id = "s1"
    /\ workflows[2].session_id = "s2"
    /\ DOMAIN conversation_history = {"s2"}
    /\ Len(conversation_history["s2"]) = 1

\* Request t was delivered to one callback only, and that callback raised.
OnlyHandlerRaised(t) ==
    /\ t \in Requests
    /\ tasks[t].pc # "callback"
    /\ Len(tasks[t].invoked) = 1
    /\ tasks[t].invoked[1].out = "raise"

\* C36: when the only callback matching a request_response raises, publish
\* swallows the exception and returns None: the caller gets neither the
\* exception nor a message, the call waits its whole timeout and then fails
\* with the timeout error.
C36_HandlerErrorBecomesTimeout ==
    /\ [](\A t \in Requests :
             OnlyHandlerRaised(t) =>
                 /\ tasks[t].response = None
                 /\ tasks[t].outcome # "raised"
                 /\ tasks[t].pc = "wait" =>
                        tasks[t].message.message_id \in DOMAIN pending_responses
                 /\ tasks[t].pc = "done" => TimedOut(t))
    /\ \A t \in 1..MaxCalls : OnlyHandlerRaised(t) ~> TimedOut(t)

C36_Witness == \E t \in Requests : OnlyHandlerRaised(t) /\ TimedOut(t)

\* The workflows that have returned success.
Successful ==
    {w \in 1..Len(workflows) : workflows[w].pc = "done" /\ workflows[w].result.success}

\* The kinds of message a successful workflow publishes, in order.
PublishedKinds(w) ==
    IF workflows[w].op = "question" THEN <<"RETRIEVAL_REQUEST", "LLM_REQUEST">>
    ELSE <<"INGESTION_REQUEST", "INGESTION_RESPONSE">>

\* C37: the bus history holds the messages passed to publish and none of the
\* replies the callbacks returned; so the history of the trace_id of a
\* successful question is its retrieval request followed by its generation
\* request, and that of a successful upload is its ingestion request followed
\* by its indexing message, and nothing more.
C37_HistoryHoldsPublishedOnly ==
    /\ Len(message_history) = Len(tasks)
    /\ \A t \in Calls :
           /\ message_history[t].message_id = tasks[t].message.message_id
           /\ \A reply \in RepliesIn(t) :
                  \A i \in 1..Len(message_history) :
                      message_history[i].message_id # reply.message_id
    /\ \A w \in Successful :
           LET trace == GetMessageHistory(message_history, workflows[w].trace_id)
           IN  /\ [i \in 1..Len(trace) |-> trace[i].type] = PublishedKinds(w)
               /\ \A i \in 1..Len(trace) :
                      /\ trace[i].sender = "CoordinatorAgent"
                      /\ \E t \in CallsOf(w) :
                             trace[i].message_id = tasks[t].message.message_id

C37_Witness ==
    /\ \E w \in Successful : workflows[w].op = "question"
    /\ \E w \in Successful :
           /\ workflows[w].op = "upload"
           /\ \E t \in CallsOf(w) : RepliesIn(t) # {}

\* Workflow w begins or runs on in this step.
Advances(w) ==
    \/ w > Len(workflows)
    \/ [workflows'[w] EXCEPT !.elapsed = 0] # [workflows[w] EXCEPT !.elapsed = 0]

\* The stored history of session sid is the same after this step.
SessionKept(sid) ==
    /\ (sid \in DOMAIN conversation_history') = (sid \in DOMAIN conversation_history)
    /\ sid \in DOMAIN conversation_history =>
           conversation_history'[sid] = conversation_history[sid]

\* C38: a step of an answer_question call for session s, successful or
\* not, leaves the stored history of every other session as it was, and a
\* step of a process_documents call leaves every session's history as it was.
C38_OtherSessionsUntouched ==
    [][\A w \in 1..Len(workflows') :
          Advances(w) =>
              \A sid \in Sessions :
                  (workflows'[w].op = "upload" \/ sid # workflows'[w].session_id)
                      => SessionKept(sid)]_vars

C38_Witness ==
    /\ Successful = {1, 2}
    /\ workflows[1].op = "question" /\ workflows[1].session_id = "s1"
    /\ workflows[2].op = "question" /\ workflows[2].session_id = "s2"
    /\ DOMAIN conversation_history = {"s1", "s2"}
    /\ Len(conversation_history["s1"]) = 1

\* The generation request of question workflow w carried turns of its session.
AskedWithHistory(w) ==
    \E t \in CallsOf(w) :
        /\ tasks[t].message.type = "LLM_REQUEST"
        /\ tasks[t].message.payload.conversation_history # <<>>

\* C39: when the session of a question call was cleared while the call
\* awaited a reply, so that the session is not stored when the call succeeds,
\* the session is stored again with the turn of that call and no other: no
\* turn from before the clear comes back.
C39_ClearedSessionRestartsWithOneTurn ==
    [][\A w \in 1..Len(workflows) :
          (Succeeds(w) /\ workflows[w].session_id \notin DOMAIN conversation_history) =>
              /\ workflows[w].session_id \in DOMAIN conversation_history'
              /\ conversation_history'[workflows[w].session_id] =
                     <<[user |-> workflows[w].query,
                        assistant |-> workflows'[w].result.answer]>>]_vars

C39_Witness ==
    /\ Len(workflows) = 1
    /\ Successful = {1}
    /\ AskedWithHistory(1)
    /\ workflows[1].session_id \in DOMAIN conversation_history
    /\ Len(conversation_history[workflows[1].session_id]) = 1
    /\ conversation_history[workflows[1].session_id][1].user = workflows[1].query

====
